---- MODULE Spec2Model ----
(***************************************************************************)
(* JetNetFinalEvaluationCallback (src/callbacks/jetnet_final_eval.py).     *)
(*                                                                         *)
(* The callback object is the record `self`; on_test_start is one action,  *)
(* on_test_end is a sequence of steps (one per external call that can      *)
(* raise), `pc` being the position inside on_test_end.  A raised exception *)
(* ends the invocation: nothing in the file catches anything.              *)
(*                                                                         *)
(* Representation: a path is the sequence of its "/"-separated components, *)
(* Python's None for an Optional[str] path is the empty sequence, a mask   *)
(* row is a sequence of 0/1 of length num_particles, a jet of a dataset    *)
(* split is <<split, index>>.                                              *)
(***************************************************************************)
EXTENDS Integers, Sequences, FiniteSets, TLC

VARIABLES
    self,             \* the callback's attributes (lines 80-97, 106-125)
    trainer,          \* the trainer both hooks are called with: its checkpoint
                      \* callbacks, its loggers, the split lengths of its datamodule
    cond_file,        \* num_particles of the jets stored in the file at cond_path
    pc,               \* position inside on_test_end, "idle" outside of it
    hook,             \* the hook that ran last: "none", "on_test_start", "on_test_end"
    entry,            \* self.num_jet_samples on entry to the last on_test_start
    first,            \* what the first on_test_start on this object resolved
    exc,              \* exception the last hook ended with, "None" if none
    raised_at,        \* the step of on_test_end that raised it, "" if none
    ckpt,             \* on_test_end local: the resolved checkpoint path
    mask,             \* on_test_end local
    cond,             \* on_test_end local
    background_data,  \* on_test_end local
    data,             \* on_test_end local: the generated jets
    metrics,          \* on_test_end local: key set of the metrics mapping
    effects           \* side effects of the current on_test_end, in order

vars == <<self, trainer, cond_file, pc, hook, entry, first, exc, raised_at, ckpt, mask, cond,
          background_data, data, metrics, effects>>

locals == <<ckpt, mask, cond, background_data, data, metrics>>

env == <<trainer, cond_file>>

\* ---------------------------------------------------------------- bounds
MaxAbsSamples == 2   \* num_jet_samples is configured in -MaxAbsSamples..MaxAbsSamples
MaxLen == 2          \* a dataset split holds 0..MaxLen jets
MaxCondJets == 2     \* the cond_path file holds 0..MaxCondJets jets
NumParticles == 2    \* trainer.datamodule.hparams.num_particles
MaxCallbacks == 2    \* trainer.checkpoint_callbacks holds 1..MaxCallbacks helpers

\* ---------------------------------------------------------------- values
None == <<>>
NoLogger == "None"

Abs(n) == IF n < 0 THEN -n ELSE n
Min(a, b) == IF a <= b THEN a ELSE b
Max(a, b) == IF a >= b THEN a ELSE b

\* seq[:n] of Python, n any integer
Slice(seq, n) ==
    IF n >= 0 THEN SubSeq(seq, 1, Min(n, Len(seq)))
    ELSE SubSeq(seq, 1, Max(Len(seq) + n, 0))

\* ------------------------------------------------------- the environment
\* A checkpoint-selection helper at position k (0-based) of
\* trainer.checkpoint_callbacks.  A plain ModelCheckpoint has no *_ema
\* attributes: they are None here and never read for that type.
Helper(k, type) ==
    LET dir == <<"logs", "checkpoints" \o ToString(k)>> IN
    [ type |-> type,
      last_model_path |-> dir \o <<"last.ckpt">>,
      best_model_path |-> dir \o <<"best.ckpt">>,
      last_model_path_ema |->
          IF type = "EMAModelCheckpoint" THEN dir \o <<"last-EMA.ckpt">> ELSE None,
      best_model_path_ema |->
          IF type = "EMAModelCheckpoint" THEN dir \o <<"best-EMA.ckpt">> ELSE None ]

HelperTypes == {"EMAModelCheckpoint", "ModelCheckpoint"}

\* the values trainer.checkpoint_callbacks can take
CheckpointCallbackLists ==
    UNION { { [k \in 1..n |-> Helper(k - 1, t[k])] : t \in [1..n -> HelperTypes] }
            : n \in 1..MaxCallbacks }

ExplicitCkptPath == <<"explicit", "checkpoints", "model.ckpt">>

\* the jets of a split: tensor_<split>, mask_<split>, tensor_conditioning_<split>
SplitLen(dm, split) == IF split = "test" THEN dm.len_test ELSE dm.len_val

Tensor(dm, split) == [i \in 1..SplitLen(dm, split) |-> <<split, i>>]

\* row k (0-based) of np.tri(jet_size): ones up to and including column k
TriRow(jet_size, k) == [j \in 1..jet_size |-> IF j - 1 <= k THEN 1 ELSE 0]

\* jet i of a split has ((i-1) mod num_particles) + 1 particles
MaskTensor(dm, split) ==
    [i \in 1..SplitLen(dm, split) |-> TriRow(NumParticles, (i - 1) % NumParticles)]

CondTensor(dm, split) == [i \in 1..SplitLen(dm, split) |-> <<"cond_" \o split, i>>]

\* ---------------------------------------------------- _get_checkpoint
\* lines 404-435.  The result is [raised, path]: raised is "None" or the name
\* of the exception, path the returned checkpoint path.
Returned(p) == [raised |-> "None", path |-> p]
Raised(e) == [raised |-> e, path |-> None]

\* Variant: the EMA lookup is tried before the explicit path.
GetCheckpointNoPrecedence(s, checkpoint_callbacks, use_last_checkpoint) ==
    LET nr == s.nr_checkpoint_callbacks + 1 IN
    IF nr > Len(checkpoint_callbacks) THEN Raised("IndexError")
    ELSE IF s.use_ema /\ checkpoint_callbacks[nr].type = "EMAModelCheckpoint"
    THEN IF use_last_checkpoint
         THEN Returned(checkpoint_callbacks[nr].last_model_path_ema)
         ELSE Returned(checkpoint_callbacks[nr].best_model_path_ema)
    ELSE IF s.ckpt_path # None THEN Returned(s.ckpt_path)
    ELSE IF use_last_checkpoint
         THEN Returned(checkpoint_callbacks[nr].last_model_path)
         ELSE Returned(checkpoint_callbacks[nr].best_model_path)

\* Variant: a helper that is not EMA-aware falls back to the plain lookup.
GetCheckpointNoValidation(s, checkpoint_callbacks, use_last_checkpoint) ==
    LET nr == s.nr_checkpoint_callbacks + 1 IN
    IF s.ckpt_path # None THEN Returned(s.ckpt_path)
    ELSE IF nr > Len(checkpoint_callbacks) THEN Raised("IndexError")
    ELSE IF s.use_ema /\ checkpoint_callbacks[nr].type = "EMAModelCheckpoint"
    THEN IF use_last_checkpoint
         THEN Returned(checkpoint_callbacks[nr].last_model_path_ema)
         ELSE Returned(checkpoint_callbacks[nr].best_model_path_ema)
    ELSE IF use_last_checkpoint
         THEN Returned(checkpoint_callbacks[nr].last_model_path)
         ELSE Returned(checkpoint_callbacks[nr].best_model_path)

GetCheckpoint(s, checkpoint_callbacks, use_last_checkpoint) ==
    LET nr == s.nr_checkpoint_callbacks + 1 IN
    IF s.ckpt_path = None
    THEN IF nr > Len(checkpoint_callbacks) THEN Raised("IndexError")
         ELSE IF s.use_ema
         THEN IF checkpoint_callbacks[nr].type = "EMAModelCheckpoint"
              THEN IF use_last_checkpoint
                   THEN Returned(checkpoint_callbacks[nr].last_model_path_ema)
                   ELSE Returned(checkpoint_callbacks[nr].best_model_path_ema)
              ELSE Raised("ValueError")
         ELSE IF use_last_checkpoint
              THEN Returned(checkpoint_callbacks[nr].last_model_path)
              ELSE Returned(checkpoint_callbacks[nr].best_model_path)
    ELSE Returned(s.ckpt_path)

\* ------------------------------------------------------- on_test_start
\* Variant: with cond_path the multiplier applies to 1, not to the split.
ResolveSamplesCondAsOne(s, dm) ==
    LET n == s.num_jet_samples
        len == IF s.cond_path # None THEN 1 ELSE SplitLen(dm, s.dataset)
        resolved == IF n < 0 /\ s.dataset \in {"test", "val"} THEN len * Abs(n) ELSE n
    IN [s EXCEPT !.num_jet_samples = resolved,
                 !.has_datasets_multiplier = TRUE,
                 !.datasets_multiplier =
                     IF s.cond_path # None \/ n >= 0 THEN -1 ELSE Abs(n)]

\* Variant: cond_path does not disable the multiplier (lines 117-118 missing).
ResolveSamplesKeepMultiplier(s, dm) ==
    LET n == s.num_jet_samples
        resolved == IF n < 0 /\ s.dataset \in {"test", "val"}
                    THEN SplitLen(dm, s.dataset) * Abs(n) ELSE n
    IN [s EXCEPT !.num_jet_samples = resolved,
                 !.has_datasets_multiplier = TRUE,
                 !.datasets_multiplier = IF n >= 0 THEN -1 ELSE Abs(n)]

\* Variant: the split length is multiplied by num_jet_samples, not its abs().
ResolveSamplesNoAbs(s, dm) ==
    LET n == s.num_jet_samples
        resolved == IF n < 0 /\ s.dataset \in {"test", "val"}
                    THEN SplitLen(dm, s.dataset) * n ELSE n
    IN [s EXCEPT !.num_jet_samples = resolved,
                 !.has_datasets_multiplier = TRUE,
                 !.datasets_multiplier =
                     IF s.cond_path # None \/ n >= 0 THEN -1 ELSE Abs(n)]

\* Variant: the test of line 105 is <= 0, and 0 means one pass over the split.
ResolveSamplesZeroAsDataset(s, dm) ==
    LET n == s.num_jet_samples
        resolved == IF n <= 0 /\ s.dataset \in {"test", "val"}
                    THEN SplitLen(dm, s.dataset) * Max(Abs(n), 1) ELSE n
    IN [s EXCEPT !.num_jet_samples = resolved,
                 !.has_datasets_multiplier = TRUE,
                 !.datasets_multiplier =
                     IF s.cond_path # None \/ n > 0 THEN -1 ELSE Max(Abs(n), 1)]

\* lines 104-118: the attributes the start hook resolves
ResolveSamples(s, dm) ==
    LET n == s.num_jet_samples
        after_test == IF n < 0 /\ s.dataset = "test" THEN dm.len_test * Abs(n) ELSE n
        after_val == IF n < 0 /\ s.dataset = "val"
                     THEN dm.len_val * Abs(after_test) ELSE after_test
    IN [s EXCEPT !.num_jet_samples = after_val,
                 !.has_datasets_multiplier = TRUE,
                 !.datasets_multiplier =
                     IF s.cond_path # None THEN -1
                     ELSE IF n < 0 THEN Abs(n) ELSE -1]

\* lines 121-125: the experiment of the last logger of each recognised type
ScanLoggers(s, loggers) ==
    [s EXCEPT !.comet_logger =
                  IF "CometLogger" \in loggers THEN "comet_experiment" ELSE s.comet_logger,
              !.wandb_logger =
                  IF "WandbLogger" \in loggers THEN "wandb_experiment" ELSE s.wandb_logger]

LoggerLists == SUBSET {"CometLogger", "WandbLogger", "CSVLogger"}

\* --------------------------------------------------------- on_test_end
\* lines 153-161: the validity mask row of a jet of stored multiplicity n.
\* Python indexing: np.tri(jet_size)[n - 1] with n - 1 = -1 is the last row.
PyIndex(len, i) == IF i < 0 THEN i + len ELSE i

MaskRow(n, jet_size) ==
    LET clipped == IF n <= jet_size THEN n ELSE jet_size
    IN TriRow(jet_size, PyIndex(jet_size, clipped - 1))

\* the cond_path file: num_particles per jet
CondFiles == UNION { [1..n -> 0..(NumParticles + 1)] : n \in 0..MaxCondJets }

MaskC(num_particles_c, jet_size) ==
    [j \in 1..Len(num_particles_c) |-> MaskRow(num_particles_c[j], jet_size)]

\* lines 163-172: entry j is the (pt, mass) pair of jet j of the file,
\* normalized or not
CondC(num_particles_c) == [j \in 1..Len(num_particles_c) |-> <<"cond_path", j>>]

\* Variant: np.tile, the whole of a m times over.
RepeatTiled(a, m) == [i \in 1..(m * Len(a)) |-> a[((i - 1) % Len(a)) + 1]]

\* np.repeat(a, m, axis=0): every entry m times in a row
Repeat(a, m) == [i \in 1..(m * Len(a)) |-> a[((i - 1) \div m) + 1]]

\* lines 197-199
ApplyMultiplier(s, a) ==
    IF s.datasets_multiplier > 1 THEN Repeat(a, s.datasets_multiplier) ELSE a

\* the files of one invocation, named as lines 216, 254, 277, 284, 335, 336, 381
GeneratedDataFile(s) == "final_generated_data" \o s.suffix \o ".npy"
PlotFile(s) == "final_plot" \o s.suffix \o ".png"
SubstructureFile(s) == "substructure" \o s.suffix \o ".h5"
SubstructureJetnetFile(s) == "substructure_jetnet" \o s.suffix \o ".h5"
Substructure3PlotsFile(s) == "substructure_3plots" \o s.suffix \o ".png"
SubstructureFullFile(s) == "substructure_full" \o s.suffix \o ".png"
SummaryFile(s) == "final_eval_metrics" \o s.suffix \o ".yml"

SubstructureFiles(s) ==
    { SubstructureFile(s), SubstructureJetnetFile(s),
      Substructure3PlotsFile(s), SubstructureFullFile(s) }

\* lines 327-332: the keys the substructure branch adds
SubstructureKeys ==
    { "w_dist_tau21_mean", "w_dist_tau21_std", "w_dist_tau32_mean",
      "w_dist_tau32_std", "w_dist_d2_mean", "w_dist_d2_std" }

\* the key sets calculate_all_wasserstein_metrics can return (line 221)
WassersteinKeySets ==
    { {"w1m_mean", "w1m_std"},
      {"w1m_mean", "w1m_std", "w1p_mean", "w1p_std", "w1efp_mean", "w1efp_std"} }

\* lines 391-393
MetricsFinal(s, m) == { k \o "_final" \o s.suffix : k \in m }

\* the steps of on_test_end in program order
SubstructureSteps ==
    <<"sub_dump_gen", "sub_dump_ref", "sub_load", "sub_wdist", "sub_plot",
      "sub_plot_full", "sub_log">>

StepsBefore == <<"load", "assemble", "generate", "save", "wdist", "plot">>

StepsAfter == <<"yaml", "log">>

InSeq(x, seq) == \E i \in 1..Len(seq) : seq[i] = x

NextInSeq(x, seq, after) ==
    LET i == CHOOSE j \in 1..Len(seq) : seq[j] = x
    IN IF i < Len(seq) THEN seq[i + 1] ELSE after

\* Variant: the substructure branch is entered whatever evaluate_substructure is.
SuccessorIgnoringFlag(s, step) ==
    IF InSeq(step, StepsBefore) THEN NextInSeq(step, StepsBefore, "sub_dump_gen")
    ELSE IF InSeq(step, SubstructureSteps) THEN NextInSeq(step, SubstructureSteps, "yaml")
    ELSE NextInSeq(step, StepsAfter, "idle")

\* the step after `step` when `step` ended without an exception
Successor(s, step) ==
    IF InSeq(step, StepsBefore)
    THEN NextInSeq(step, StepsBefore,
                   IF s.evaluate_substructure THEN "sub_dump_gen" ELSE "yaml")
    ELSE IF InSeq(step, SubstructureSteps) THEN NextInSeq(step, SubstructureSteps, "yaml")
    ELSE NextInSeq(step, StepsAfter, "idle")

\* Variant: an exception in the substructure branch is caught and the hook
\* goes on to write the summary.
OnExceptionSkipSubstructure(step) ==
    IF InSeq(step, SubstructureSteps) THEN "yaml" ELSE "idle"

\* where control goes when `step` raises: nothing is caught, the hook ends
OnException(step) == "idle"

\* ------------------------------------------------------------ __init__
\* lines 53-97: the attributes after construction
CondPath == <<"conditioning", "cond.h5">>

Suffixes == {"", "_ema"}

Configs ==
    [ use_ema : BOOLEAN,
      dataset : {"test", "val", "train"},
      ckpt_path : {None, ExplicitCkptPath},
      nr_checkpoint_callbacks : 0..(MaxCallbacks - 1),
      use_last_checkpoint : BOOLEAN,
      num_jet_samples : (-MaxAbsSamples)..MaxAbsSamples,
      fix_seed : BOOLEAN,
      evaluate_substructure : BOOLEAN,
      suffix : Suffixes,
      cond_path : {None, CondPath},
      comet_logger : {NoLogger},
      wandb_logger : {NoLogger},
      has_datasets_multiplier : {FALSE},
      datasets_multiplier : {0} ]

DataModules == [len_test : 0..MaxLen, len_val : 0..MaxLen]

Trainers ==
    [ checkpoint_callbacks : CheckpointCallbackLists,
      loggers : LoggerLists,
      datamodule : DataModules ]

\* the constructor's defaults (lines 55-74), and an environment to go with them
DefaultConfig ==
    [ use_ema |-> TRUE, dataset |-> "test", ckpt_path |-> None,
      nr_checkpoint_callbacks |-> 0, use_last_checkpoint |-> TRUE,
      num_jet_samples |-> -1, fix_seed |-> TRUE, evaluate_substructure |-> TRUE,
      suffix |-> "", cond_path |-> None, comet_logger |-> NoLogger,
      wandb_logger |-> NoLogger, has_datasets_multiplier |-> FALSE,
      datasets_multiplier |-> 0 ]

DefaultTrainer ==
    [ checkpoint_callbacks |-> <<Helper(0, "EMAModelCheckpoint")>>,
      loggers |-> {"CometLogger", "WandbLogger"},
      datamodule |-> [len_test |-> MaxLen, len_val |-> 1] ]

DefaultCondFile == <<1, NumParticles + 1>>

\* Init ranges over four families of runs.  Each varies one group of
\* constructor arguments and inputs over all its values and keeps the others
\* at the defaults.
CheckpointRuns ==
    { <<c, t, DefaultCondFile>> :
        c \in { x \in Configs :
                  x = [DefaultConfig EXCEPT
                         !.use_ema = x.use_ema, !.ckpt_path = x.ckpt_path,
                         !.nr_checkpoint_callbacks = x.nr_checkpoint_callbacks,
                         !.use_last_checkpoint = x.use_last_checkpoint] },
        t \in { y \in Trainers :
                  y = [DefaultTrainer EXCEPT
                         !.checkpoint_callbacks = y.checkpoint_callbacks] } }

SampleRuns ==
    { <<c, t, DefaultCondFile>> :
        c \in { x \in Configs :
                  x = [DefaultConfig EXCEPT
                         !.dataset = x.dataset, !.num_jet_samples = x.num_jet_samples,
                         !.cond_path = x.cond_path] },
        t \in { y \in Trainers :
                  y = [DefaultTrainer EXCEPT !.datamodule = y.datamodule] } }

OutputRuns ==
    { <<c, t, DefaultCondFile>> :
        c \in { x \in Configs :
                  x = [DefaultConfig EXCEPT
                         !.evaluate_substructure = x.evaluate_substructure,
                         !.fix_seed = x.fix_seed, !.suffix = x.suffix] },
        t \in { y \in Trainers : y = [DefaultTrainer EXCEPT !.loggers = y.loggers] } }

ConditioningRuns ==
    { <<c, DefaultTrainer, f>> :
        c \in { x \in Configs :
                  x = [DefaultConfig EXCEPT
                         !.cond_path = CondPath,
                         !.num_jet_samples = x.num_jet_samples] },
        f \in CondFiles }

Runs == CheckpointRuns \cup SampleRuns \cup OutputRuns \cup ConditioningRuns

Init ==
    /\ \E run \in Runs :
          /\ self = run[1]
          /\ trainer = run[2]
          /\ cond_file = run[3]
    /\ pc = "idle"
    /\ hook = "none"
    /\ entry = 0
    /\ first = [started |-> FALSE, num_jet_samples |-> 0, datasets_multiplier |-> 0]
    /\ exc = "None"
    /\ raised_at = ""
    /\ ckpt = None
    /\ mask = <<>>
    /\ cond = <<>>
    /\ background_data = <<>>
    /\ data = <<>>
    /\ metrics = {}
    /\ effects = <<>>

NoLocals ==
    /\ ckpt' = None
    /\ mask' = <<>>
    /\ cond' = <<>>
    /\ background_data' = <<>>
    /\ data' = <<>>
    /\ metrics' = {}

\* lines 99-125
OnTestStart ==
    /\ pc = "idle"
    /\ self' = ScanLoggers(ResolveSamples(self, trainer.datamodule), trainer.loggers)
    /\ hook' = "on_test_start"
    /\ entry' = self.num_jet_samples
    /\ first' = IF first.started THEN first
                ELSE [started |-> TRUE,
                      num_jet_samples |-> self'.num_jet_samples,
                      datasets_multiplier |-> self'.datasets_multiplier]
    /\ exc' = "None"
    /\ raised_at' = ""
    /\ effects' = <<>>
    /\ NoLocals
    /\ UNCHANGED <<env, pc>>

\* a step of on_test_end ends normally / with exception e
Goes(step) == pc' = Successor(self, step) /\ UNCHANGED <<exc, raised_at>>
Raises(step, e) == pc' = OnException(step) /\ exc' = e /\ raised_at' = step

\* a side effect: a call of an external routine, a file written, a logger call;
\* keys is the key set of the mapping the call returns or is given, if any
Eff(op, arg, keys) == [op |-> op, arg |-> arg, keys |-> keys]

\* lines 134-139: entry and checkpoint resolution
EndGetCheckpoint ==
    /\ pc = "idle"
    /\ hook' = "on_test_end"
    /\ LET r == GetCheckpoint(self, trainer.checkpoint_callbacks, self.use_last_checkpoint)
       IN /\ ckpt' = r.path
          /\ pc' = IF r.raised = "None" THEN "load" ELSE "idle"
          /\ exc' = r.raised
          /\ raised_at' = IF r.raised = "None" THEN "" ELSE "get_checkpoint"
    /\ effects' = <<>>
    /\ mask' = <<>>
    /\ cond' = <<>>
    /\ background_data' = <<>>
    /\ data' = <<>>
    /\ metrics' = {}
    /\ UNCHANGED <<self, env, entry, first>>

\* lines 140-144: model reload and seeding
EndLoadModel ==
    /\ pc = "load"
    /\ \/ /\ effects' = effects \o <<Eff("load_from_checkpoint", ckpt[Len(ckpt)], {})>>
                        \o (IF self.fix_seed THEN <<Eff("manual_seed", "9999", {})>>
                            ELSE <<>>)
          /\ Goes("load")
       \/ /\ Raises("load", "Exception")
          /\ UNCHANGED effects
    /\ UNCHANGED <<self, env, hook, entry, first, locals>>

\* lines 146-199: conditioning, background slice, mask and cond of the request
EndAssemble ==
    /\ pc = "assemble"
    /\ LET jet_size == NumParticles
           has_c == self.cond_path # None
           n == self.num_jet_samples
           dm == trainer.datamodule
           bg_data == Slice(Tensor(dm, self.dataset), n)
           bg_mask == Slice(MaskTensor(dm, self.dataset), n)
           bg_cond == Slice(CondTensor(dm, self.dataset), n)
           mask0 == IF has_c THEN Slice(MaskC(cond_file, jet_size), n) ELSE bg_mask
           cond0 == IF has_c THEN Slice(CondC(cond_file), n) ELSE bg_cond
       IN \/ \* the cond_path file cannot be read, or lacks a key
             /\ has_c
             /\ Raises("assemble", "Exception")
             /\ UNCHANGED <<mask, cond, background_data>>
          \/ IF has_c /\ Len(cond_file) = 1
             THEN \* squeeze() leaves a 0-d array, line 156 iterates over it
                  /\ Raises("assemble", "TypeError")
                  /\ UNCHANGED <<mask, cond, background_data>>
             ELSE IF self.dataset \notin {"test", "val"}
             THEN \* background_data is never bound
                  /\ Raises("assemble", "UnboundLocalError")
                  /\ UNCHANGED <<mask, cond, background_data>>
             ELSE IF ~self.has_datasets_multiplier
             THEN \* on_test_start never ran
                  /\ Raises("assemble", "AttributeError")
                  /\ UNCHANGED <<mask, cond, background_data>>
             ELSE /\ background_data' = bg_data
                  /\ mask' = ApplyMultiplier(self, mask0)
                  /\ cond' = ApplyMultiplier(self, cond0)
                  /\ Goes("assemble")
    /\ UNCHANGED <<self, env, hook, entry, first, ckpt, data, metrics, effects>>

\* lines 201-212: generate_data returns as many jets as it is asked for
EndGenerate ==
    /\ pc = "generate"
    /\ \/ /\ data' = [i \in 1..Len(mask) |-> <<"generated", i>>]
          /\ effects' = Append(effects, Eff("generate_data", ToString(Len(mask)), {}))
          /\ Goes("generate")
       \/ /\ Raises("generate", "Exception")
          /\ UNCHANGED <<data, effects>>
    /\ UNCHANGED <<self, env, hook, entry, first, ckpt, mask, cond, background_data, metrics>>

\* lines 214-218
EndSave ==
    /\ pc = "save"
    /\ \/ /\ effects' = Append(effects, Eff("write", GeneratedDataFile(self), {}))
          /\ Goes("save")
       \/ /\ Raises("save", "Exception")
          /\ UNCHANGED effects
    /\ UNCHANGED <<self, env, hook, entry, first, locals>>

\* lines 220-221
EndWasserstein ==
    /\ pc = "wdist"
    /\ \/ \E keys \in WassersteinKeySets :
             /\ metrics' = keys
             /\ effects' = Append(effects, Eff("calculate_all_wasserstein_metrics", "", keys))
             /\ Goes("wdist")
       \/ /\ Raises("wdist", "Exception")
          /\ UNCHANGED <<metrics, effects>>
    /\ UNCHANGED <<self, env, hook, entry, first, ckpt, mask, cond, background_data, data>>

\* lines 223-273: plot preparation and the primary plot
EndPlot ==
    /\ pc = "plot"
    /\ \/ /\ effects' = Append(effects, Eff("write", PlotFile(self), {}))
          /\ Goes("plot")
       \/ /\ Raises("plot", "Exception")
          /\ UNCHANGED effects
    /\ UNCHANGED <<self, env, hook, entry, first, locals>>

\* a step of the substructure branch that writes one file
SubWrites(step, file) ==
    /\ pc = step
    /\ \/ /\ effects' = Append(effects, Eff("write", file, {}))
          /\ Goes(step)
       \/ /\ Raises(step, "Exception")
          /\ UNCHANGED effects
    /\ UNCHANGED <<self, env, hook, entry, first, locals>>

\* line 281
EndSubDumpGenerated == SubWrites("sub_dump_gen", SubstructureFile(self))

\* line 290
EndSubDumpReference == SubWrites("sub_dump_ref", SubstructureJetnetFile(self))

\* lines 292-313: both substructure files are read back
EndSubLoad ==
    /\ pc = "sub_load"
    /\ \/ /\ effects' = effects \o <<Eff("read", SubstructureFile(self), {}),
                                    Eff("read", SubstructureJetnetFile(self), {})>>
          /\ Goes("sub_load")
       \/ /\ Raises("sub_load", "Exception")
          /\ UNCHANGED effects
    /\ UNCHANGED <<self, env, hook, entry, first, locals>>

\* lines 315-332
EndSubWasserstein ==
    /\ pc = "sub_wdist"
    /\ \/ /\ metrics' = metrics \cup SubstructureKeys
          /\ effects' = Append(effects, Eff("wasserstein_distance_batched", "", SubstructureKeys))
          /\ Goes("sub_wdist")
       \/ /\ Raises("sub_wdist", "Exception")
          /\ UNCHANGED <<metrics, effects>>
    /\ UNCHANGED <<self, env, hook, entry, first, ckpt, mask, cond, background_data, data>>

\* lines 337-348
EndSubPlot == SubWrites("sub_plot", Substructure3PlotsFile(self))

\* lines 349-357
EndSubPlotFull == SubWrites("sub_plot_full", SubstructureFullFile(self))

\* the logger calls of a logging block, in order: the comet ones, then the wandb ones
LoggerCalls(s, comet_calls, wandb_calls) ==
    (IF s.comet_logger # NoLogger THEN comet_calls ELSE <<>>)
    \o (IF s.wandb_logger # NoLogger THEN wandb_calls ELSE <<>>)

\* a logging block: the first k calls succeed; the hook goes on if all did
Logs(step, calls) ==
    /\ pc = step
    /\ \E k \in 0..Len(calls) :
          /\ effects' = effects \o SubSeq(calls, 1, k)
          /\ IF k = Len(calls) THEN Goes(step) ELSE Raises(step, "Exception")
    /\ UNCHANGED <<self, env, hook, entry, first, locals>>

\* lines 359-379
EndSubLog ==
    Logs("sub_log",
         LoggerCalls(self,
             << Eff("comet.log_image", "A_final_substructure" \o self.suffix, {}),
                Eff("comet.log_image", "A_final_substructure_full" \o self.suffix, {}) >>,
             << Eff("wandb.log", "A_final_substructure" \o self.suffix, {}),
                Eff("wandb.log", "A_final_substructure_full" \o self.suffix, {}) >>))

\* lines 381-388: float() of every value, then the file is opened and dumped
\* to; float() raises before the file exists, yaml.dump after open() made it
EndYaml ==
    /\ pc = "yaml"
    /\ \/ /\ effects' = Append(effects, Eff("write", SummaryFile(self), metrics))
          /\ Goes("yaml")
       \/ /\ effects' = Append(effects, Eff("write", SummaryFile(self), metrics))
          /\ Raises("yaml", "Exception")
       \/ /\ Raises("yaml", "Exception")
          /\ UNCHANGED effects
    /\ UNCHANGED <<self, env, hook, entry, first, locals>>

\* lines 390-402
EndLog ==
    Logs("log",
         LoggerCalls(self,
             << Eff("comet.log_image", "A_final_plot" \o self.suffix, {}),
                Eff("comet.log_metrics", "", MetricsFinal(self, metrics)) >>,
             << Eff("wandb.log", "A_final_plot" \o self.suffix, {}),
                Eff("wandb.log", "", MetricsFinal(self, metrics)) >>))

OnTestEnd ==
    \/ EndGetCheckpoint
    \/ EndLoadModel
    \/ EndAssemble
    \/ EndGenerate
    \/ EndSave
    \/ EndWasserstein
    \/ EndPlot
    \/ EndSubDumpGenerated
    \/ EndSubDumpReference
    \/ EndSubLoad
    \/ EndSubWasserstein
    \/ EndSubPlot
    \/ EndSubPlotFull
    \/ EndSubLog
    \/ EndYaml
    \/ EndLog

Next == OnTestStart \/ OnTestEnd

Spec == Init /\ [][Next]_vars

\* ================================================================ claims
HelperAt == trainer.checkpoint_callbacks[self.nr_checkpoint_callbacks + 1]
HasHelper == self.nr_checkpoint_callbacks + 1 <= Len(trainer.checkpoint_callbacks)
EndRan == hook = "on_test_end"
StartRan == hook = "on_test_start"
HasEffect(e) == \E i \in 1..Len(effects) : effects[i] = e
HasOp(op) == \E i \in 1..Len(effects) : effects[i].op = op

\* C1: _get_checkpoint resolves by precedence.  An explicit ckpt_path is
\* returned verbatim whatever use_ema, use_last_checkpoint, the index and the
\* helper's type are; without one, use_ema and an EMAModelCheckpoint helper
\* give its last/best *_ema path by use_last_checkpoint; without one and
\* without use_ema the helper's last/best plain path is returned.
C1_CheckpointPrecedence ==
    EndRan =>
        /\ self.ckpt_path # None => ckpt = self.ckpt_path /\ raised_at # "get_checkpoint"
        /\ (self.ckpt_path = None /\ HasHelper /\ self.use_ema
               /\ HelperAt.type = "EMAModelCheckpoint")
           => ckpt = IF self.use_last_checkpoint THEN HelperAt.last_model_path_ema
                     ELSE HelperAt.best_model_path_ema
        /\ (self.ckpt_path = None /\ HasHelper /\ ~self.use_ema)
           => ckpt = IF self.use_last_checkpoint THEN HelperAt.last_model_path
                     ELSE HelperAt.best_model_path

\* the explicit path wins over an EMA request that the helper could serve with
\* another path, and over one it could not serve at all
C1_Witness ==
    /\ EndRan /\ pc = "load"
    /\ self.ckpt_path = ExplicitCkptPath /\ ckpt = ExplicitCkptPath
    /\ self.use_ema /\ ~self.use_last_checkpoint
    /\ self.nr_checkpoint_callbacks = 1 /\ HasHelper
    /\ HelperAt.type = "ModelCheckpoint"

\* C2 as stated: use_ema and a helper that is not EMA-aware make on_test_end
\* raise ValueError with no side effect, whatever ckpt_path is.
C2_AsStated ==
    (EndRan /\ pc = "idle" /\ self.use_ema /\ HasHelper
        /\ HelperAt.type # "EMAModelCheckpoint")
    => (exc = "ValueError" /\ effects = <<>>)

\* C2, amended: with no explicit ckpt_path, use_ema and a helper at index
\* nr_checkpoint_callbacks that is not EMA-aware make on_test_end raise
\* ValueError out of the checkpoint resolution: the hook is over, and no model
\* was reloaded, nothing generated, no file written and no logger called.
C2_EmaMismatchRaises ==
    (EndRan /\ self.ckpt_path = None /\ self.use_ema /\ HasHelper
        /\ HelperAt.type # "EMAModelCheckpoint")
    => (pc = "idle" /\ exc = "ValueError" /\ raised_at = "get_checkpoint"
        /\ effects = <<>> /\ data = <<>> /\ metrics = {})

C2_Witness ==
    /\ EndRan /\ exc = "ValueError" /\ effects = <<>>
    /\ self.ckpt_path = None /\ self.use_ema
    /\ HelperAt.type = "ModelCheckpoint"
    /\ self.has_datasets_multiplier
    /\ self.comet_logger # NoLogger /\ self.wandb_logger # NoLogger

SelectedLen == SplitLen(trainer.datamodule, self.dataset)

\* C3: a negative num_jet_samples, no cond_path and dataset "test" or "val":
\* after on_test_start the sample count is abs(num_jet_samples) times the
\* length of the selected split and the multiplier is abs(num_jet_samples).
C3_NegativeIsMultiple ==
    (StartRan /\ entry < 0 /\ self.cond_path = None /\ self.dataset \in {"test", "val"})
    => /\ self.num_jet_samples = Abs(entry) * SelectedLen
       /\ self.has_datasets_multiplier
       /\ self.datasets_multiplier = Abs(entry)

C3_Witness ==
    /\ StartRan /\ entry = -2 /\ self.cond_path = None
    /\ self.dataset = "val" /\ trainer.datamodule.len_val = 2
    /\ trainer.datamodule.len_test = 1
    /\ self.num_jet_samples = 4 /\ self.datasets_multiplier = 2

\* C5 as stated: with cond_path set and a negative num_jet_samples the start
\* hook resolves the sample count to abs(num_jet_samples) * 1, whatever the
\* length of the selected split.
C5_AsStated ==
    (StartRan /\ entry < 0 /\ self.cond_path # None /\ self.dataset \in {"test", "val"})
    => self.num_jet_samples = Abs(entry) * 1

\* C5, amended: with cond_path set, a negative num_jet_samples and dataset
\* "test" or "val", the start hook still resolves the sample count to
\* abs(num_jet_samples) times the length of the selected split, as it does
\* without cond_path; only the dataset multiplier is disabled (-1).
C5_CondPathKeepsSplitLength ==
    (StartRan /\ entry < 0 /\ self.cond_path # None /\ self.dataset \in {"test", "val"})
    => /\ self.num_jet_samples = Abs(entry) * SelectedLen
       /\ self.datasets_multiplier = -1

C5_Witness ==
    /\ StartRan /\ entry = -2 /\ self.cond_path = CondPath
    /\ self.dataset = "test" /\ trainer.datamodule.len_test = 2
    /\ self.num_jet_samples = 4 /\ self.datasets_multiplier = -1

\* C8: a non-negative num_jet_samples, 0 included: after on_test_start the
\* sample count is the configured value and the multiplier is disabled (-1).
C8_NonNegativeIsAbsolute ==
    (StartRan /\ entry >= 0)
    => /\ self.num_jet_samples = entry
       /\ self.has_datasets_multiplier
       /\ self.datasets_multiplier = -1

C8_Witness ==
    /\ StartRan /\ entry = 0 /\ self.num_jet_samples = 0
    /\ self.cond_path = None /\ self.dataset = "test" /\ SelectedLen = 2
    /\ self.datasets_multiplier = -1

\* the mask and conditioning of the request have been assembled (line 199 passed)
Assembled ==
    pc \in { "generate", "save", "wdist", "plot", "sub_dump_gen", "sub_dump_ref",
             "sub_load", "sub_wdist", "sub_plot", "sub_plot_full", "sub_log",
             "yaml", "log" }

\* C9: with cond_path set the multiplier is -1 after on_test_start for every
\* num_jet_samples, and on_test_end then requests the file's mask and
\* conditioning sliced to the sample count, not repeated.
C9_CondPathDisablesMultiplier ==
    /\ (StartRan /\ self.cond_path # None)
       => (self.has_datasets_multiplier /\ self.datasets_multiplier = -1)
    /\ (EndRan /\ Assembled /\ self.cond_path # None)
       => /\ self.datasets_multiplier = -1
          /\ mask = Slice(MaskC(cond_file, NumParticles), self.num_jet_samples)
          /\ cond = Slice(CondC(cond_file), self.num_jet_samples)
          /\ Len(mask) <= Len(cond_file)

C9_Witness ==
    /\ EndRan /\ pc = "generate" /\ self.cond_path = CondPath
    /\ entry = -2 /\ self.num_jet_samples = 4 /\ self.datasets_multiplier = -1
    /\ Len(cond_file) = 2 /\ Len(mask) = 2

ActiveCount(row) == Cardinality({ i \in 1..Len(row) : row[i] = 1 })

\* C4: with the conditioning loaded from cond_path, the mask row on_test_end
\* builds for a jet of stored multiplicity n has exactly n active entries when
\* 0 <= n <= num_particles, and exactly num_particles when n is larger.
C4_MaskRowHasMultiplicity ==
    (EndRan /\ Assembled /\ self.cond_path # None)
    => \A j \in 1..Len(mask) :
          ActiveCount(mask[j]) = Min(cond_file[j], NumParticles)

Index(e) == CHOOSE i \in 1..Len(effects) : effects[i] = e

Before(e, f) == HasEffect(e) /\ HasEffect(f) /\ Index(e) < Index(f)

OpBefore(op, f) == \E i \in 1..Len(effects) : effects[i].op = op /\ i < Index(f)

SummaryWrite == Eff("write", SummaryFile(self), metrics)

SummaryWritten == \E i \in 1..Len(effects) :
    effects[i].op = "write" /\ effects[i].arg = SummaryFile(self)

\* a logger was given a mapping of metrics
MetricsPushed == \E i \in 1..Len(effects) :
    effects[i].op \in {"comet.log_metrics", "wandb.log"} /\ effects[i].keys # {}

\* C6: the summary file is written only after generation, the saving of the
\* generated data, the Wasserstein metrics, the primary plot and, with
\* evaluate_substructure, every step of the substructure branch; when a step of
\* that branch raises, the hook ends with the bulk metrics computed, the
\* summary file unwritten and no metrics pushed to a logger.
C6_SummaryWrittenLast ==
    EndRan =>
        /\ SummaryWritten =>
              /\ HasEffect(SummaryWrite)
              /\ OpBefore("load_from_checkpoint", SummaryWrite)
              /\ OpBefore("generate_data", SummaryWrite)
              /\ Before(Eff("write", GeneratedDataFile(self), {}), SummaryWrite)
              /\ OpBefore("calculate_all_wasserstein_metrics", SummaryWrite)
              /\ Before(Eff("write", PlotFile(self), {}), SummaryWrite)
              /\ self.evaluate_substructure =>
                    /\ \A f \in SubstructureFiles(self) :
                          Before(Eff("write", f, {}), SummaryWrite)
                    /\ Before(Eff("read", SubstructureFile(self), {}), SummaryWrite)
                    /\ Before(Eff("read", SubstructureJetnetFile(self), {}), SummaryWrite)
                    /\ OpBefore("wasserstein_distance_batched", SummaryWrite)
              /\ raised_at \in {"", "yaml", "log"}
              /\ \A i \in 1..Len(effects) :
                    (effects[i].op \in {"comet.log_metrics", "wandb.log"}
                        /\ effects[i].keys # {})
                    => Index(SummaryWrite) < i
        /\ InSeq(raised_at, SubstructureSteps) =>
              /\ pc = "idle" /\ exc # "None"
              /\ HasOp("calculate_all_wasserstein_metrics") /\ metrics # {}
              /\ ~SummaryWritten
              /\ ~MetricsPushed

C6_Witness ==
    /\ EndRan /\ pc = "idle" /\ raised_at = "sub_log"
    /\ self.comet_logger # NoLogger /\ self.wandb_logger # NoLogger
    /\ HasEffect(Eff("comet.log_image", "A_final_substructure" \o self.suffix, {}))
    /\ HasEffect(Eff("write", SubstructureFullFile(self), {}))
    /\ metrics # {} /\ ~SummaryWritten

\* the keys calculate_all_wasserstein_metrics returned in this invocation
WassersteinKeys ==
    effects[CHOOSE i \in 1..Len(effects) :
                effects[i].op = "calculate_all_wasserstein_metrics"].keys

\* C7: with evaluate_substructure False a run of on_test_end writes none of the
\* substructure files, logs no substructure image, and the mapping it writes to
\* the summary file holds exactly the keys the Wasserstein routine returned,
\* none of the six substructure keys; the mapping it logs holds exactly those
\* keys, each with "_final" and the suffix appended.
C7_NoSubstructureWhenDisabled ==
    (EndRan /\ ~self.evaluate_substructure) =>
        \A i \in 1..Len(effects) :
            LET e == effects[i] IN
            /\ e.op \in {"write", "read"} => e.arg \notin SubstructureFiles(self)
            /\ e.op # "wasserstein_distance_batched"
            /\ e.op \in {"comet.log_image", "wandb.log"} =>
                  e.arg \notin { "A_final_substructure" \o self.suffix,
                                 "A_final_substructure_full" \o self.suffix }
            /\ (e.op = "write" /\ e.arg = SummaryFile(self)) =>
                  /\ e.keys = WassersteinKeys
                  /\ e.keys \cap SubstructureKeys = {}
            /\ (e.op \in {"comet.log_metrics", "wandb.log"} /\ e.arg = "") =>
                  /\ e.keys = { k \o "_final" \o self.suffix : k \in WassersteinKeys }
                  /\ \A k \in SubstructureKeys :
                        (k \o "_final" \o self.suffix) \notin e.keys

C7_Witness ==
    /\ EndRan /\ pc = "idle" /\ exc = "None" /\ ~self.evaluate_substructure
    /\ self.suffix = "_ema"
    /\ HasEffect(Eff("write", "final_eval_metrics_ema.yml", {"w1m_mean", "w1m_std"}))
    /\ HasEffect(Eff("comet.log_metrics", "", {"w1m_mean_final_ema", "w1m_std_final_ema"}))
    /\ HasEffect(Eff("wandb.log", "", {"w1m_mean_final_ema", "w1m_std_final_ema"}))

\* the split's mask and conditioning, sliced to the sample count (lines 174-186)
SlicedMask == Slice(MaskTensor(trainer.datamodule, self.dataset), self.num_jet_samples)
SlicedCond == Slice(CondTensor(trainer.datamodule, self.dataset), self.num_jet_samples)

\* generation was asked for count jets
Requested(count) == HasEffect(Eff("generate_data", ToString(count), {}))

\* C10 as stated: with a multiplier m > 1 the mask and conditioning passed to
\* generation are the slice of length L tiled m times: entry i is slice entry
\* i mod L.
C10_AsStated ==
    (EndRan /\ HasOp("generate_data") /\ self.datasets_multiplier > 1) =>
        LET m == self.datasets_multiplier
            L == Len(SlicedMask)
        IN /\ Len(mask) = m * L /\ Len(cond) = m * L
           /\ \A i \in 0..(m * L - 1) :
                 /\ mask[i + 1] = SlicedMask[(i % L) + 1]
                 /\ cond[i + 1] = SlicedCond[(i % L) + 1]
           /\ Requested(m * L)
           /\ Len(background_data) = L

\* C10, amended: with a multiplier m > 1 the mask and conditioning passed to
\* generation are the slice of length L with every entry repeated m times in a
\* row: they have length m*L, entry i is slice entry i div m for i in
\* 0..m*L-1, m*L jets are requested and generated, and the background data
\* keeps length L.
C10_MultiplierRepeatsEntries ==
    (EndRan /\ HasOp("generate_data") /\ self.datasets_multiplier > 1) =>
        LET m == self.datasets_multiplier
            L == Len(SlicedMask)
        IN /\ Len(mask) = m * L /\ Len(cond) = m * L
           /\ \A i \in 0..(m * L - 1) :
                 /\ mask[i + 1] = SlicedMask[(i \div m) + 1]
                 /\ cond[i + 1] = SlicedCond[(i \div m) + 1]
           /\ Requested(m * L)
           /\ Len(data) = m * L
           /\ Len(background_data) = L
           /\ background_data = Slice(Tensor(trainer.datamodule, self.dataset), L)

C10_Witness ==
    /\ EndRan /\ HasOp("generate_data") /\ self.datasets_multiplier = 2
    /\ Len(background_data) = 2 /\ Len(mask) = 4 /\ Len(data) = 4
    /\ mask[1] = mask[2] /\ mask[2] # mask[3]

\* ---------------------------------------------------------------- C11
\* C11: for any sequence of on_test_start and on_test_end invocations on the
\* same callback object with the same trainer and datamodule, after every
\* on_test_start the effective sample count self.num_jet_samples and the
\* multiplier self.datasets_multiplier equal the values the first
\* on_test_start resolved.
C11_StartHookIdempotent ==
    (StartRan /\ first.started) =>
        /\ self.num_jet_samples = first.num_jet_samples
        /\ self.datasets_multiplier = first.datasets_multiplier

\* C11, the part the code keeps: the sample count of every later
\* on_test_start equals the one the first on_test_start resolved.
C11_SampleCountRepeats ==
    (StartRan /\ first.started) => self.num_jet_samples = first.num_jet_samples

\* C11, where the code departs: the first on_test_start resolved a multiplier
\* m >= 1 from a negative num_jet_samples, a later one resolves -1.
C11_MultiplierLost ==
    /\ StartRan
    /\ first.started
    /\ first.datasets_multiplier >= 1
    /\ self.num_jet_samples = first.num_jet_samples
    /\ self.datasets_multiplier = -1

====
